---- MODULE Spec2Model ----
(***************************************************************************)
(* A model of the CryptAPI client library (src/src/index.ts,               *)
(* src/src/fetch.ts and utils.ts, which is src/unnamed/part_003 lines      *)
(* 5-17).                                                                   *)
(*                                                                         *)
(* Representation of JavaScript values.                                    *)
(*   - A string is a sequence of pieces.  A piece is either one of the     *)
(*     separator characters the code looks at ("_", "/", "?", "&", "=",   *)
(*     "%") or a run of other characters.  The empty string is << >>.      *)
(*     Concatenation is \o.                                                *)
(*   - A value is a record tagged by t: "str", "num", "null",              *)
(*     "undefined" or "obj".  An object is the sequence of its entries     *)
(*     [k, v] in property order (Object.entries order); an array is an     *)
(*     object whose keys are its indices.                                  *)
(***************************************************************************)
EXTENDS Integers, Sequences, FiniteSets, TLC

VARIABLES
    ctor,            \* per instance: "none" | "instance" | "thrown" (what `new` gave its caller)
    fields,          \* per instance: coin, ownAddress, callbackUrl, parameters, caParams
    paymentAddress,  \* per instance: the field paymentAddress
    validation,      \* per instance: the constructor's detached promise
    pending,         \* the calls awaiting their HTTP response
    done,            \* the call that settled last, with its outcome
    got,             \* per instance: what the last fulfilled getAddress returned
    writes,          \* per instance: number of assignments to paymentAddress
    info,            \* flattener harness: the Service Info structure under construction
    coins,           \* flattener harness: the accumulator after processServiceInfo
    phase            \* flattener harness: "build" | "flat"

vars == <<ctor, fields, paymentAddress, validation, pending, done, got, writes,
          info, coins, phase>>

----------------------------------------------------------------------------
(* JavaScript values *)

Str(s) == [t |-> "str", v |-> s]
Num(n) == [t |-> "num", n |-> n]
JNull == [t |-> "null"]
Undefined == [t |-> "undefined"]
Obj(kids) == [t |-> "obj", kids |-> kids]
Entry(k, v) == [k |-> k, v |-> v]

\* ToBoolean
Truthy(v) ==
    CASE v.t = "str" -> v.v # << >>
      [] v.t = "num" -> v.n # 0
      [] v.t = "obj" -> TRUE
      [] OTHER -> FALSE

\* value && typeof value === "object"
IsObject(v) == Truthy(v) /\ v.t = "obj"

\* String(v), as URLSearchParams.append and new Error(v) apply it
ToStr(v) ==
    CASE v.t = "str" -> v.v
      [] v.t = "num" -> <<ToString(v.n)>>
      [] v.t = "null" -> <<"null">>
      [] v.t = "undefined" -> <<"undefined">>
      [] OTHER -> <<"[object Object]">>

\* key in object
HasKey(kids, k) == \E i \in 1..Len(kids) : kids[i].k = k

\* object[key]
Get(kids, k) ==
    IF HasKey(kids, k)
    THEN kids[CHOOSE i \in 1..Len(kids) : kids[i].k = k].v
    ELSE Undefined

\* object[key] = value: an existing property keeps its place, a new one goes last
Put(kids, k, v) ==
    IF HasKey(kids, k)
    THEN [i \in 1..Len(kids) |-> IF kids[i].k = k THEN Entry(k, v) ELSE kids[i]]
    ELSE Append(kids, Entry(k, v))

\* const { [k]: _, ...rest } = object
Rest(kids, k) == SelectSeq(kids, LAMBDA e : e.k # k)

\* { ...a, ...b }
RECURSIVE Spread(_, _)
Spread(a, b) ==
    IF b = << >> THEN a ELSE Spread(Put(a, Head(b).k, Head(b).v), Tail(b))

----------------------------------------------------------------------------
(* utils.ts *)

ticker == <<"ticker">>

\* processServiceInfo with a first-one-wins accumulator
RECURSIVE processServiceInfo_keepFirst(_, _, _)
processServiceInfo_keepFirst(inf, acc, prefix) ==
    IF inf = << >> THEN acc
    ELSE LET key == Head(inf).k
             value == Head(inf).v
             acc1 == IF IsObject(value) /\ HasKey(value.kids, ticker)
                     THEN IF HasKey(acc, prefix \o key) THEN acc
                          ELSE Put(acc, prefix \o key, Get(value.kids, ticker))
                     ELSE IF IsObject(value)
                          THEN processServiceInfo_keepFirst(value.kids, acc,
                                                            prefix \o key \o <<"_">>)
                          ELSE acc
         IN processServiceInfo_keepFirst(Tail(inf), acc1, prefix)

\* processServiceInfo walking the entries from the last to the first
RECURSIVE processServiceInfo_lastFirst(_, _, _)
processServiceInfo_lastFirst(inf, acc, prefix) ==
    IF inf = << >> THEN acc
    ELSE LET key == inf[Len(inf)].k
             value == inf[Len(inf)].v
             acc1 == IF IsObject(value) /\ HasKey(value.kids, ticker)
                     THEN Put(acc, prefix \o key, Get(value.kids, ticker))
                     ELSE IF IsObject(value)
                          THEN processServiceInfo_lastFirst(value.kids, acc,
                                                            prefix \o key \o <<"_">>)
                          ELSE acc
         IN processServiceInfo_lastFirst(SubSeq(inf, 1, Len(inf) - 1), acc1, prefix)

RECURSIVE processServiceInfo(_, _, _)
processServiceInfo(inf, acc, prefix) ==
    IF inf = << >> THEN acc
    ELSE LET key == Head(inf).k
             value == Head(inf).v
             acc1 == IF IsObject(value) /\ HasKey(value.kids, ticker)
                     THEN Put(acc, prefix \o key, Get(value.kids, ticker))
                     ELSE IF IsObject(value)
                          THEN processServiceInfo(value.kids, acc, prefix \o key \o <<"_">>)
                          ELSE acc
         IN processServiceInfo(Tail(inf), acc1, prefix)

----------------------------------------------------------------------------
(* fetch.ts *)

None == [t |-> "none"]          \* no return value / no error
Returned(v) == [ret |-> v, err |-> None]
Thrown(e) == [ret |-> None, err |-> e]
Err(name, message) == [name |-> name, message |-> message]

\* An HTTP exchange as fetch() and Response.json() show it to the code.
NetworkFailure == [net |-> "fail"]
Unparsable == [t |-> "unparsable"]   \* a body that is not JSON
HttpResponse(status, body) == [net |-> "ok", status |-> status, body |-> body]

\* Response.ok
ok(res) == res.status >= 200 /\ res.status <= 299

status == <<"status">>
error == <<"error">>
success == <<"success">>
InvalidStructure == <<"Invalid success response structure">>
HttpError(code) == <<"HTTP error! Status: ", ToString(code)>>

isValidSuccessResp(response) ==
    /\ Truthy(response)
    /\ response.t = "obj"
    /\ HasKey(response.kids, status)
    /\ Get(response.kids, status) = Str(success)

\* the assignment written as resp = { status: "success" }
setStatus_fresh(resp) ==
    IF resp.t = "obj"
    THEN [ret |-> [t |-> "obj", kids |-> <<[k |-> <<"status">>, v |-> [t |-> "str", v |-> <<"success">>]]>>],
          err |-> [t |-> "none"]]
    ELSE [ret |-> [t |-> "none"], err |-> [name |-> "TypeError", message |-> <<"Cannot set properties">>]]

\* resp["status"] = "success" (fetch.ts is a module, so strict mode: the
\* assignment throws on null and on a primitive)
setStatus(resp) ==
    IF resp.t = "obj"
    THEN Returned(Obj(Put(resp.kids, status, Str(success))))
    ELSE Thrown(Err("TypeError", <<"Cannot set properties">>))

\* lines 15-21: the branch taken when !res.ok
notOk(res, resp) ==
    IF ~Truthy(resp)
    THEN Thrown(Err("Error", HttpError(res.status)))
    ELSE IF resp.t # "obj"
         THEN Thrown(Err("TypeError", <<"Cannot use 'in' operator">>))
         ELSE IF HasKey(resp.kids, error)
              THEN Thrown(Err("Error", ToStr(Get(resp.kids, error))))
              ELSE Thrown(Err("Error", HttpError(res.status)))

\* lines 12-28: the body of the try block
fetchTry(res) ==
    IF res.net = "fail"
    THEN Thrown(Err("TypeError", <<"fetch failed">>))
    ELSE IF res.body = Unparsable
         THEN Thrown(Err("SyntaxError", <<"Unexpected token">>))
         ELSE IF ~ok(res)
              THEN notOk(res, res.body)
              ELSE LET set == setStatus(res.body)
                   IN IF set.err # None THEN set
                      ELSE IF ~isValidSuccessResp(set.ret)
                           THEN Thrown(Err("Error", InvalidStructure))
                           ELSE Returned(set.ret)

\* lines 29-32: the catch block logs and rethrows
fetchCatch(e) == Thrown(e)

fetchData(res) ==
    LET r == fetchTry(res)
    IN IF r.err # None THEN fetchCatch(r.err) ELSE r

----------------------------------------------------------------------------
(* index.ts: URLs *)

\* String.prototype.replace(from, to) with a string pattern: the first
\* occurrence only
RECURSIVE replace(_, _, _)
replace(s, from, to) ==
    IF s = << >> THEN << >>
    ELSE IF Head(s) = from THEN <<to>> \o Tail(s)
         ELSE <<Head(s)>> \o replace(Tail(s), from, to)

\* A request as fetchData receives it: the path of the URL after baseURL and
\* the (decoded) query parameters in order.  Method, Referer and credentials
\* are the same for every request.
Request(path, query) == [path |-> path, query |-> query]

\* makeRequest with the coin put into the path as it is
makeRequest_rawCoin(endpoint, coin, params) ==
    Request(<<"/">> \o (IF coin # << >>
                        THEN coin \o <<"/", endpoint, "/">>
                        ELSE <<endpoint, "/">>),
            [n \in 1..Len(params) |-> Entry(params[n].k, ToStr(params[n].v))])

\* lines 173-183 of index.ts: new URL(baseURL).pathname is "/"
makeRequest(endpoint, coin, params) ==
    Request(<<"/">> \o (IF coin # << >>
                        THEN replace(coin, "_", "/") \o <<"/", endpoint, "/">>
                        ELSE <<endpoint, "/">>),
            [n \in 1..Len(params) |-> Entry(params[n].k, ToStr(params[n].v))])

\* new URL(s) accepts an absolute URL only
Schemes == {"https://", "http://"}
isURL(s) == s # << >> /\ Head(s) \in Schemes

\* application/x-www-form-urlencoded serialisation of one name or value
RECURSIVE formEncode(_)
formEncode(s) ==
    IF s = << >> THEN << >>
    ELSE (CASE Head(s) = "%" -> <<"%", "25">>
            [] Head(s) = "&" -> <<"%", "26">>
            [] Head(s) = "=" -> <<"%", "3D">>
            [] Head(s) = "?" -> <<"%", "3F">>
            [] Head(s) = "/" -> <<"%", "2F">>
            [] OTHER -> <<Head(s)>>) \o formEncode(Tail(s))

\* encodeURI keeps the reserved characters and escapes "%" itself
RECURSIVE encodeURI(_)
encodeURI(s) ==
    IF s = << >> THEN << >>
    ELSE (IF Head(s) = "%" THEN <<"%", "25">> ELSE <<Head(s)>>) \o encodeURI(Tail(s))

\* every extra parameter appended, whatever its type
RECURSIVE appendParams_all(_, _)
appendParams_all(url, parameters) ==
    IF parameters = << >> THEN url
    ELSE appendParams_all(url \o <<IF \E n \in 1..Len(url) : url[n] = "?" THEN "&" ELSE "?">>
                              \o formEncode(Head(parameters).k) \o <<"=">>
                              \o formEncode(ToStr(Head(parameters).v)),
                          Tail(parameters))

\* cbUrl.searchParams.append(k, String(v)) for the string and number valued
\* parameters, then cbUrl.toString()
RECURSIVE appendParams(_, _)
appendParams(url, parameters) ==
    IF parameters = << >> THEN url
    ELSE LET k == Head(parameters).k
             v == Head(parameters).v
             sep == IF \E n \in 1..Len(url) : url[n] = "?" THEN "&" ELSE "?"
         IN IF v.t \in {"str", "num"}
            THEN appendParams(url \o <<sep>> \o formEncode(k) \o <<"=">> \o formEncode(ToStr(v)),
                              Tail(parameters))
            ELSE appendParams(url, Tail(parameters))

----------------------------------------------------------------------------
(* index.ts: the operations.  The part of an operation before its await     *)
(* gives the requests it issues and the error it throws, if any; the part   *)
(* after the await maps the outcome of fetchData to the operation's own.    *)

\* a call that issues its request a second time
Sent_retry(req) == [reqs |-> <<req, req>>, err |-> [t |-> "none"]]

Sent(req) == [reqs |-> <<req>>, err |-> None]
Failed(e) == [reqs |-> << >>, err |-> e]

callback == <<"callback">>
address == <<"address">>
address_in == <<"address", "_", "in">>
fee_tiers == <<"fee", "_", "tiers">>

\* getAddress with the ownAddress check made after the request is issued
getAddressStart_lateCheck(f) ==
    IF f.coin = << >> THEN Failed(Err("Error", <<"Coin not set">>))
    ELSE IF f.callbackUrl = << >> THEN Failed(Err("Error", <<"Callback URL not set">>))
    ELSE IF ~isURL(f.callbackUrl) THEN Failed(Err("TypeError", <<"Invalid URL">>))
    ELSE [reqs |-> <<makeRequest("create", f.coin,
                                 <<Entry(callback, Str(f.callbackUrl)),
                                   Entry(address, Str(f.ownAddress))>>)>>,
          err |-> IF f.ownAddress = << >> THEN Err("Error", <<"Address not set">>) ELSE None]

\* getAddress spreading the gateway options after callback and address
getAddressStart_optionsLast(f) ==
    IF f.coin = << >> THEN Failed(Err("Error", <<"Coin not set">>))
    ELSE IF f.callbackUrl = << >> THEN Failed(Err("Error", <<"Callback URL not set">>))
    ELSE IF f.ownAddress = << >> THEN Failed(Err("Error", <<"Address not set">>))
    ELSE IF ~isURL(f.callbackUrl) THEN Failed(Err("TypeError", <<"Invalid URL">>))
    ELSE Sent(makeRequest("create", f.coin,
                          Spread(<<Entry(callback,
                                         Str(encodeURI(appendParams(f.callbackUrl, f.parameters)))),
                                   Entry(address, Str(f.ownAddress))>>,
                                 f.caParams)))

\* lines 74-97
getAddressStart(f) ==
    IF f.coin = << >> THEN Failed(Err("Error", <<"Coin not set">>))
    ELSE IF f.callbackUrl = << >> THEN Failed(Err("Error", <<"Callback URL not set">>))
    ELSE IF f.ownAddress = << >> THEN Failed(Err("Error", <<"Address not set">>))
    ELSE IF ~isURL(f.callbackUrl) THEN Failed(Err("TypeError", <<"Invalid URL">>))
    ELSE Sent(makeRequest("create", f.coin,
                          Put(Put(Spread(<< >>, f.caParams),
                                  callback,
                                  Str(encodeURI(appendParams(f.callbackUrl, f.parameters)))),
                              address, Str(f.ownAddress))))

\* lines 92-98 and 101: the value getAddress returns
getAddressResult(out) ==
    IF out.err # None THEN out ELSE Returned(Get(out.ret.kids, address_in))

\* getAddress storing address_out
getAddressStore_addressOut(out) ==
    IF out.err # None THEN << >> ELSE <<Get(out.ret.kids, <<"address", "_", "out">>)>>

\* getAddress resetting the field when the request fails
getAddressStore_resetOnError(out) ==
    IF out.err # None THEN <<Str(<< >>)>> ELSE <<Get(out.ret.kids, address_in)>>

\* line 100: the values the call assigns to this.paymentAddress, in order
getAddressStore(out) ==
    IF out.err # None THEN << >> ELSE <<Get(out.ret.kids, address_in)>>

\* lines 105-119
checkLogsStart(f) ==
    IF f.coin = << >> \/ f.callbackUrl = << >>
    THEN Failed(Err("Error", <<"Coin or callback URL not set">>))
    ELSE IF ~isURL(f.callbackUrl) THEN Failed(Err("TypeError", <<"Invalid URL">>))
    ELSE Sent(makeRequest("logs", f.coin,
                          <<Entry(callback,
                                  Str(encodeURI(appendParams(f.callbackUrl, f.parameters))))>>))

\* fetchQRCode refusing to run without a payment address
fetchQRCodeStart_guarded(f, pa, value, size) ==
    IF f.coin = << >> THEN [reqs |-> << >>, err |-> [name |-> "Error", message |-> <<"Coin not set">>]]
    ELSE IF f.ownAddress = << >> \/ pa = [t |-> "str", v |-> << >>]
         THEN [reqs |-> << >>, err |-> [name |-> "Error", message |-> <<"Address not set">>]]
         ELSE [reqs |-> <<makeRequest("qrcode", f.coin,
                                      <<[k |-> <<"value">>, v |-> value],
                                        [k |-> <<"size">>, v |-> size],
                                        [k |-> <<"address">>, v |-> pa]>>)>>,
               err |-> [t |-> "none"]]

\* lines 123-135
fetchQRCodeStart(f, pa, value, size) ==
    IF f.coin = << >> THEN Failed(Err("Error", <<"Coin not set">>))
    ELSE IF f.ownAddress = << >> THEN Failed(Err("Error", <<"Address not set">>))
    ELSE Sent(makeRequest("qrcode", f.coin,
                          <<Entry(<<"value">>, value), Entry(<<"size">>, size),
                            Entry(address, pa)>>))

\* lines 141-147
fetchServiceInfoStart(prices) ==
    Sent(makeRequest("info", << >>, <<Entry(<<"prices">>, Num(IF prices THEN 1 ELSE 0))>>))

\* lines 155-158
fetchEstimatedFeesStart(coin, addresses, priority) ==
    Sent(makeRequest("estimate", coin,
                     <<Entry(<<"addresses">>, addresses), Entry(<<"priority">>, priority)>>))

\* lines 162-165
fetchConversionStart(coin, value, from) ==
    Sent(makeRequest("convert", coin, <<Entry(<<"value">>, value), Entry(<<"from">>, from)>>))

\* lines 58-70: fetchSupportedCoins after its fetchServiceInfo(false) settled
fetchSupportedCoins(out) ==
    IF out.err # None THEN Returned(JNull)
    ELSE Returned(Obj(processServiceInfo(Rest(out.ret.kids, fee_tiers), << >>, << >>)))

\* lines 42-46: the callback the constructor hangs on fetchSupportedCoins()
Unsupported == <<"The cryptocurrency/token requested is not supported.">>
validate(coin, validCoins) ==
    IF ~Truthy(validCoins) \/ ~HasKey(validCoins.kids, coin)
    THEN Thrown(Err("Error", Unsupported))
    ELSE Returned(Undefined)

----------------------------------------------------------------------------
(* The inputs: instances the caller constructs and responses the gateway    *)
(* (or the network) can give.                                               *)

Ids == {1, 2}
MaxPending == 2     \* calls in flight at once
MaxWrites == 2      \* getAddress calls that may store an address, per instance

Coins == {<< >>, <<"polygon", "_", "usdt">>, <<"doge">>}
OwnAddresses == {<< >>, <<"0xOwn">>}
CallbackUrls == {<< >>, <<"not a url">>, <<"https://", "shop.example", "/", "hook">>}
Configs ==
    [coin : Coins, ownAddress : OwnAddresses, callbackUrl : CallbackUrls,
     parameters : {<<Entry(<<"order", "_", "id">>, Num(12345))>>},
     caParams : {<<Entry(<<"multi", "_", "chain">>, Num(1))>>}]

CreateBody(a) ==
    Obj(<<Entry(status, Str(success)), Entry(address_in, Str(a)),
          Entry(<<"address", "_", "out">>, Str(<<"0xOwn">>))>>)
ErrorBody == Obj(<<Entry(status, Str(error)), Entry(error, Str(<<"bad coin">>))>>)
InfoBody ==
    Obj(<<Entry(fee_tiers, Obj(<<Entry(<<"0">>, Obj(<<Entry(<<"minimum">>, Str(<<"0">>)),
                                                      Entry(<<"fee">>, Str(<<"1.0">>))>>))>>)),
          Entry(<<"btc">>, Obj(<<Entry(<<"coin">>, Str(<<"Bitcoin">>)),
                                 Entry(ticker, Str(<<"btc">>))>>)),
          Entry(<<"polygon">>,
                Obj(<<Entry(<<"usdt">>, Obj(<<Entry(ticker, Str(<<"usdt">>))>>))>>))>>)

LifecycleResponses ==
    {NetworkFailure,
     HttpResponse(200, CreateBody(<<"A1">>)),
     HttpResponse(200, CreateBody(<<"A2">>)),
     HttpResponse(200, ErrorBody),
     HttpResponse(400, ErrorBody),
     HttpResponse(200, InfoBody)}

----------------------------------------------------------------------------
(* The state machine *)

NoCall == [op |-> "none"]
Call(op, i, coin, s) ==
    [op |-> op, i |-> i, coin |-> coin, req |-> s.reqs[1], nreq |-> Len(s.reqs)]
Settled(op, i, coin, nreq, req, res, out) ==
    [op |-> op, i |-> i, coin |-> coin, nreq |-> nreq, req |-> req, res |-> res, out |-> out]

Remove(seq, j) == [n \in 1..(Len(seq) - 1) |-> IF n < j THEN seq[n] ELSE seq[n + 1]]

InitInstances ==
    /\ ctor = [i \in Ids |-> "none"]
    /\ fields = [i \in Ids |-> None]
    /\ paymentAddress = [i \in Ids |-> None]
    /\ validation = [i \in Ids |-> [st |-> "none"]]
    /\ pending = << >>
    /\ done = NoCall
    /\ got = [i \in Ids |-> None]
    /\ writes = [i \in Ids |-> 0]

InitHarness ==
    /\ info = << >>
    /\ coins = None
    /\ phase = "build"

Init == InitInstances /\ InitHarness

instanceVars == <<ctor, fields, paymentAddress, validation, got, writes>>
harnessVars == <<info, coins, phase>>

\* A call that is refused once the constructor's validation has raised
Start_gated(op, i, coin, s) ==
    IF s.err # None \/ (i \in Ids /\ validation[i].st = "raised")
    THEN /\ done' = [op |-> op, i |-> i, coin |-> coin, nreq |-> 0, req |-> None,
                     res |-> None,
                     out |-> Thrown(IF s.err # None THEN s.err
                                    ELSE Err("Error", <<"The cryptocurrency/token requested is not supported.">>))]
         /\ UNCHANGED pending
    ELSE /\ Len(pending) < 2
         /\ pending' = Append(pending, [op |-> op, i |-> i, coin |-> coin,
                                        req |-> s.reqs[1], nreq |-> Len(s.reqs)])
         /\ UNCHANGED done

\* A call that starts: it throws before its await, or it issues its request
\* and waits.
Start(op, i, coin, s) ==
    IF s.err # None
    THEN /\ done' = Settled(op, i, coin, Len(s.reqs), None, None, Thrown(s.err))
         /\ UNCHANGED pending
    ELSE /\ Len(pending) < MaxPending
         /\ pending' = Append(pending, Call(op, i, coin, s))
         /\ UNCHANGED done

\* index.ts lines 35-55: new CryptAPI(coin, ownAddress, callbackUrl, parameters, caParams)
Construct(i, f) ==
    /\ ctor[i] = "none"
    /\ Len(pending) < MaxPending
    /\ pending' = Append(pending, Call("validate", i, << >>, fetchServiceInfoStart(FALSE)))
    /\ fields' = [fields EXCEPT ![i] = f]
    /\ paymentAddress' = [paymentAddress EXCEPT ![i] = Str(<< >>)]
    /\ validation' = [validation EXCEPT ![i] = [st |-> "pending"]]
    /\ ctor' = [ctor EXCEPT ![i] = "instance"]
    /\ UNCHANGED <<done, got, writes, harnessVars>>

InFlight(op, i) == Cardinality({n \in 1..Len(pending) : pending[n].op = op /\ pending[n].i = i})

GetAddress(i) ==
    /\ ctor[i] = "instance"
    /\ writes[i] + InFlight("getAddress", i) < MaxWrites
    /\ Start("getAddress", i, fields[i].coin, getAddressStart(fields[i]))
    /\ UNCHANGED <<instanceVars, harnessVars>>

CheckLogs(i) ==
    /\ ctor[i] = "instance"
    /\ Start("checkLogs", i, fields[i].coin, checkLogsStart(fields[i]))
    /\ UNCHANGED <<instanceVars, harnessVars>>

\* fetchQRCode reading a payment address that all instances share
FetchQRCode_static(i, value, size) ==
    /\ ctor[i] = "instance"
    /\ Start("fetchQRCode", i, fields[i].coin,
             fetchQRCodeStart(fields[i], paymentAddress[1], value, size))
    /\ UNCHANGED <<instanceVars, harnessVars>>

FetchQRCode(i, value, size) ==
    /\ ctor[i] = "instance"
    /\ Start("fetchQRCode", i, fields[i].coin, fetchQRCodeStart(fields[i], paymentAddress[i], value, size))
    /\ UNCHANGED <<instanceVars, harnessVars>>

FetchServiceInfo(prices) ==
    /\ Start("fetchServiceInfo", 0, << >>, fetchServiceInfoStart(prices))
    /\ UNCHANGED <<instanceVars, harnessVars>>

FetchSupportedCoins ==
    /\ Start("fetchSupportedCoins", 0, << >>, fetchServiceInfoStart(FALSE))
    /\ UNCHANGED <<instanceVars, harnessVars>>

FetchEstimatedFees(coin, addresses, priority) ==
    /\ Start("fetchEstimatedFees", 0, coin, fetchEstimatedFeesStart(coin, addresses, priority))
    /\ UNCHANGED <<instanceVars, harnessVars>>

FetchConversion(coin, value, from) ==
    /\ Start("fetchConversion", 0, coin, fetchConversionStart(coin, value, from))
    /\ UNCHANGED <<instanceVars, harnessVars>>

\* What an operation makes of the outcome of its fetchData call
Continue(c, fd) ==
    CASE c.op = "getAddress" -> getAddressResult(fd)
      [] c.op \in {"fetchSupportedCoins", "validate"} -> fetchSupportedCoins(fd)
      [] OTHER -> fd

\* The response to the request of pending call j arrives: fetchData settles
\* and the operation runs to its end.
Respond(j, res) ==
    /\ j \in 1..Len(pending)
    /\ LET c == pending[j]
           fd == fetchData(res)
           out == Continue(c, fd)
           stored == IF c.op = "getAddress" THEN getAddressStore(fd) ELSE << >>
       IN /\ pending' = Remove(pending, j)
          /\ IF c.op = "validate"
             THEN /\ validation' = [validation EXCEPT ![c.i] =
                        [st |-> IF validate(fields[c.i].coin, out.ret).err # None
                                THEN "raised" ELSE "passed",
                         validCoins |-> out.ret]]
                  /\ UNCHANGED <<done, paymentAddress, writes, got>>
             ELSE /\ done' = Settled(c.op, c.i, c.coin, c.nreq, c.req, res, out)
                  /\ paymentAddress' =
                        IF stored = << >> THEN paymentAddress
                        ELSE [paymentAddress EXCEPT ![c.i] = stored[Len(stored)]]
                  /\ writes' =
                        IF stored = << >> THEN writes
                        ELSE [writes EXCEPT ![c.i] = @ + Len(stored)]
                  /\ got' =
                        IF c.op = "getAddress" /\ out.err = None
                        THEN [got EXCEPT ![c.i] = out.ret] ELSE got
                  /\ UNCHANGED validation
    /\ UNCHANGED <<ctor, fields, harnessVars>>

LifecycleIds == {1}
QRValues == {JNull, Num(1)}
QRSizes == {Num(512)}

Next ==
    \/ \E i \in LifecycleIds, f \in Configs : Construct(i, f)
    \/ \E i \in LifecycleIds : GetAddress(i)
    \/ \E i \in LifecycleIds : CheckLogs(i)
    \/ \E i \in LifecycleIds, value \in QRValues, size \in QRSizes : FetchQRCode(i, value, size)
    \/ \E j \in 1..MaxPending, res \in LifecycleResponses : Respond(j, res)

Spec == Init /\ [][Next]_vars

----------------------------------------------------------------------------
(* The static operations against every kind of response *)

Statuses == {200, 299, 404}
Bodies ==
    {Unparsable, JNull, Num(5), Obj(<< >>),
     ErrorBody, Obj(<<Entry(error, Str(<<"rate limited">>))>>),
     CreateBody(<<"A1">>), InfoBody}
Responses == {NetworkFailure} \cup {HttpResponse(s, b) : s \in Statuses, b \in Bodies}

StaticCoins ==
    {<< >>, <<"btc">>, <<"polygon", "_", "usdt">>, <<"a", "_", "b", "_", "c">>}

NextStatic ==
    \/ \E prices \in BOOLEAN : FetchServiceInfo(prices)
    \/ FetchSupportedCoins
    \/ \E coin \in StaticCoins : FetchEstimatedFees(coin, Num(1), Str(<<"default">>))
    \/ \E coin \in {<<"polygon", "_", "usdt">>} : FetchConversion(coin, Num(300), Str(<<"USD">>))
    \/ \E j \in 1..MaxPending, res \in Responses : Respond(j, res)

SpecStatic == Init /\ [][NextStatic]_vars

----------------------------------------------------------------------------
(* Properties of the instance operations (specification Spec) *)

\* The values a request carries for query parameter k, in order
ParamValues(req, k) ==
    LET hits == SelectSeq(req.query, LAMBDA e : e.k = k)
    IN [n \in 1..Len(hits) |-> hits[n].v]

Newest(seq) == seq[Len(seq)]
Started(op) ==
    /\ Len(pending') = Len(pending) + 1
    /\ Newest(pending').op = op

\* C1: when getAddress has completed successfully on an instance and
\* fetchQRCode is then called on it, the qrcode request carries exactly one
\* `address` parameter, and it is the text of the address_in value that the
\* last such getAddress returned.
C1_QRCodeSendsReturnedAddress ==
    [][\A i \in Ids :
         (got[i] # None /\ Started("fetchQRCode") /\ Newest(pending').i = i)
            => ParamValues(Newest(pending').req, address) = <<ToStr(got[i])>>]_vars

C1_Witness ==
    \E n \in 1..Len(pending) :
        /\ pending[n].op = "fetchQRCode"
        /\ got[pending[n].i] = Str(<<"A2">>)
        /\ ParamValues(pending[n].req, address) = <<<<"A2">>>>

\* The local checks of the claim, stated on the instance's configuration
Misconfigured(op, f) ==
    IF op = "getAddress"
    THEN f.coin = << >> \/ f.callbackUrl = << >> \/ f.ownAddress = << >>
    ELSE op = "checkLogs" /\ (f.coin = << >> \/ f.callbackUrl = << >>)

ConfigMessages(f) ==
    {m \in {<<"Coin not set">>, <<"Callback URL not set">>, <<"Address not set">>} :
        \/ m = <<"Coin not set">> /\ f.coin = << >>
        \/ m = <<"Callback URL not set">> /\ f.callbackUrl = << >>
        \/ m = <<"Address not set">> /\ f.ownAddress = << >>}

\* C2: getAddress on an instance whose coin, callbackUrl or ownAddress is
\* empty fails with the message of a missing field, checkLogs on an instance
\* whose coin or callbackUrl is empty fails, and in both cases the call has
\* issued no HTTP request: it is never found waiting for a response.
C2_ConfigErrorBeforeNetwork ==
    /\ \A n \in 1..Len(pending) :
          pending[n].i \in Ids => ~Misconfigured(pending[n].op, fields[pending[n].i])
    /\ (done # NoCall /\ done.i \in Ids /\ Misconfigured(done.op, fields[done.i]))
          => /\ done.out.err # None
             /\ done.out.ret = None
             /\ done.nreq = 0
             /\ done.req = None
             /\ done.op = "getAddress"
                   => /\ done.out.err.name = "Error"
                      /\ done.out.err.message \in ConfigMessages(fields[done.i])

C2_Witness ==
    /\ done # NoCall
    /\ done.op = "getAddress"
    /\ fields[done.i].coin # << >>
    /\ fields[done.i].callbackUrl = << >>
    /\ done.out.err = Err("Error", <<"Callback URL not set">>)
    /\ done.nreq = 0
    /\ pending = << >>

\* C9 (as claimed): once the supported-coins mapping has arrived and the
\* instance's coin is not one of its keys, the code that ran `new CryptAPI`
\* was thrown the error instead of being given the instance.
C9_ConstructorThrowsUnsupported ==
    \A i \in Ids :
        (/\ validation[i].st \in {"passed", "raised"}
         /\ Truthy(validation[i].validCoins)
         /\ ~HasKey(validation[i].validCoins.kids, fields[i].coin))
            => ctor[i] = "thrown"

SettledNow(op, i) ==
    /\ Len(pending') = Len(pending) - 1
    /\ validation' = validation
    /\ done'.op = op
    /\ done'.i = i

C11_NoValueParameterWhenNull ==
    [][\A i \in Ids, size \in QRSizes :
         (FetchQRCode(i, JNull, size) /\ Started("fetchQRCode"))
            => ParamValues(Newest(pending').req, <<"value">>) = << >>]_vars

InstanceOps == {"getAddress", "checkLogs", "fetchQRCode"}

\* The instance passes the local checks of all three methods
WellConfigured(f) ==
    /\ f.coin # << >>
    /\ f.ownAddress # << >>
    /\ f.callbackUrl # << >> /\ Head(f.callbackUrl) \in {"https://", "http://"}

\* What a method makes of the response to its request
Expected(op, res) ==
    IF op = "getAddress" THEN getAddressResult(fetchData(res)) ELSE fetchData(res)

\* The request getAddress and checkLogs issue, from the instance's fields alone
ExpectedRequest(op, i) ==
    CASE op = "getAddress" -> getAddressStart(fields[i]).reqs[1]
      [] op = "checkLogs" -> checkLogsStart(fields[i]).reqs[1]

FailedLocally(op, i) ==
    /\ done' # done
    /\ done'.op = op /\ done'.i = i
    /\ done'.res = None

\* C14 (as claimed): fetchQRCode fails locally when, and only when, coin is
\* empty; called on an instance on which no getAddress has yet completed
\* successfully it issues the qrcode request with the empty initial
\* paymentAddress as `address`.
C14_QRCodeFailsOnlyOnEmptyCoin ==
    [][\A i \in Ids :
         ctor[i] = "instance"
            => /\ FailedLocally("fetchQRCode", i) => fields[i].coin = << >>
               /\ (Started("fetchQRCode") /\ Newest(pending').i = i)
                     => /\ fields[i].coin # << >>
                        /\ got[i] = None
                              => ParamValues(Newest(pending').req, address) = << << >> >>]_vars

\* C14 (amended): fetchQRCode fails locally exactly when coin is empty
\* ("Coin not set") or, coin being set, ownAddress is empty ("Address not
\* set").  Otherwise it never looks at paymentAddress: it issues the qrcode
\* request with one `address` parameter, the text of paymentAddress, which is
\* the empty initial value as long as no getAddress has completed
\* successfully on the instance, also while one is in flight.
C14_QRCodeUnguarded ==
    [][\A i \in Ids :
         ctor[i] = "instance"
            => /\ FailedLocally("fetchQRCode", i)
                     => /\ fields[i].coin = << >> \/ fields[i].ownAddress = << >>
                        /\ done'.nreq = 0
                        /\ done'.out.err.message =
                              (IF fields[i].coin = << >> THEN <<"Coin not set">>
                               ELSE <<"Address not set">>)
               /\ (Started("fetchQRCode") /\ Newest(pending').i = i)
                     => /\ fields[i].coin # << >> /\ fields[i].ownAddress # << >>
                        /\ ParamValues(Newest(pending').req, address)
                              = <<ToStr(paymentAddress[i])>>
                        /\ got[i] = None => paymentAddress[i] = Str(<< >>)]_vars

\* A qrcode request with the empty address, issued while a getAddress call
\* of the same instance waited for its response
C14_Witness ==
    \E m, n \in 1..Len(pending) :
        /\ m < n
        /\ pending[m].op = "getAddress" /\ pending[n].op = "fetchQRCode"
        /\ pending[m].i = pending[n].i
        /\ got[pending[n].i] = None
        /\ ParamValues(pending[n].req, address) = << << >> >>

----------------------------------------------------------------------------
(* Properties of fetchData and the static operations (specification         *)
(* SpecStatic)                                                              *)

\* The operations that hand the outcome of fetchData to their caller as it is
Direct == {"fetchServiceInfo", "fetchEstimatedFees", "fetchConversion"}

Answered == done # NoCall /\ done.res # None
Is2xx(res) == res.net = "ok" /\ res.status \in 200..299
Parsed(res) == res.net = "ok" /\ res.body # Unparsable

\* The success marker of the specification: a `status` field equal to "success"
HasMarker(body) ==
    /\ body.t = "obj"
    /\ \E n \in 1..Len(body.kids) :
          body.kids[n].k = <<"status">> /\ body.kids[n].v = Str(<<"success">>)

\* C3 (as claimed): fetchSupportedCoins never raises, and it returns null
\* unless the info request succeeded, that is unless a 2xx response arrived
\* whose body parsed and carries the success marker.
C3_SupportedCoinsNullOnFailure ==
    (Answered /\ done.op = "fetchSupportedCoins")
        => /\ done.out.err = None
           /\ ~(Is2xx(done.res) /\ Parsed(done.res) /\ HasMarker(done.res.body))
                 => done.out.ret = JNull

\* C4 (as claimed, for the bodies that are JSON objects): a 2xx response
\* whose parsed body has no `status` field, or a `status` other than
\* "success", makes fetchData fail with "Invalid success response structure".
C4_MissingMarkerIsInvalidStructure ==
    (Answered /\ done.op \in Direct
       /\ Is2xx(done.res) /\ Parsed(done.res)
       /\ done.res.body.t = "obj" /\ ~HasMarker(done.res.body))
        => done.out.err = Err("Error", <<"Invalid success response structure">>)

\* C5 (as claimed): a non-2xx response makes fetchData fail with the body's
\* `error` field when the body has one, and otherwise, also when the body
\* is not JSON, with the generic message that carries the status code.
C5_NonOkMessage ==
    (Answered /\ done.op \in Direct /\ done.res.net = "ok" /\ ~Is2xx(done.res))
        => /\ done.out.err # None
           /\ done.out.err.message =
                 IF Parsed(done.res) /\ done.res.body.t = "obj"
                    /\ \E n \in 1..Len(done.res.body.kids) :
                          done.res.body.kids[n].k = <<"error">>
                 THEN ToStr((CHOOSE e \in {done.res.body.kids[n] :
                                              n \in 1..Len(done.res.body.kids)} :
                                e.k = <<"error">>).v)
                 ELSE <<"HTTP error! Status: ", ToString(done.res.status)>>

\* C6: a fetchData call that ends, ends either with a value or with an error
\* and not with both; a value is the parsed body of the response, an object
\* whose status is "success", with the same fields in the same order and
\* every field but status unchanged.
C6_SuccessXorError ==
    (Answered /\ done.op \in Direct)
        => /\ (done.out.ret # None) # (done.out.err # None)
           /\ done.out.ret # None
                 => /\ Parsed(done.res) /\ done.res.body.t = "obj" /\ done.out.ret.t = "obj"
                    /\ LET body == done.res.body.kids
                           ret == done.out.ret.kids
                       IN /\ \E n \in 1..Len(ret) :
                                ret[n].k = <<"status">> /\ ret[n].v = Str(<<"success">>)
                          /\ \A n \in 1..Len(body) :
                                /\ n <= Len(ret)
                                /\ ret[n].k = body[n].k
                                /\ body[n].k # <<"status">> => ret[n].v = body[n].v
                          /\ \A n \in 1..Len(ret) :
                                n > Len(body) => ret[n].k = <<"status">>

C6_Witness ==
    /\ Answered /\ done.op \in Direct
    /\ done.res = HttpResponse(200, CreateBody(<<"A1">>))
    /\ done.out.err = None
    /\ \E n \in 1..Len(done.out.ret.kids) :
          done.out.ret.kids[n] = Entry(<<"address", "_", "in">>, Str(<<"A1">>))

\* The endpoint of each operation
Endpoint(op) ==
    CASE op = "getAddress" -> "create"
      [] op = "checkLogs" -> "logs"
      [] op = "fetchQRCode" -> "qrcode"
      [] op = "fetchEstimatedFees" -> "estimate"
      [] op = "fetchConversion" -> "convert"
      [] OTHER -> "info"

Separators(coin) == {n \in 1..Len(coin) : coin[n] = "_"}

\* The path the claim gives for a call (for the coins it speaks of)
PathRule(c) ==
    /\ c.coin = << >> => c.req.path = <<"/", Endpoint(c.op), "/">>
    /\ (c.coin # << >> /\ Separators(c.coin) = {})
          => c.req.path = <<"/">> \o c.coin \o <<"/", Endpoint(c.op), "/">>
    /\ \A n \in Separators(c.coin) :
          Separators(c.coin) = {n}
             => c.req.path = <<"/">> \o SubSeq(c.coin, 1, n - 1) \o <<"/">>
                                \o SubSeq(c.coin, n + 1, Len(c.coin))
                                \o <<"/", Endpoint(c.op), "/">>

\* C7: the path of every request is /{endpoint}/ when the call has no coin,
\* /{coin}/{endpoint}/ when its coin has no "_", and
\* /{group}/{subtype}/{endpoint}/ when its coin is group_subtype with a
\* single "_".
C7_PathRule ==
    /\ \A n \in 1..Len(pending) : PathRule(pending[n])
    /\ (done # NoCall /\ done.req # None) => PathRule(done)

C7_Witness ==
    /\ \E n \in 1..Len(pending) :
          /\ pending[n].coin = <<"polygon", "_", "usdt">>
          /\ pending[n].req.path = <<"/", "polygon", "/", "usdt", "/", "estimate", "/">>
    /\ \E n \in 1..Len(pending) :
          /\ pending[n].coin = <<"btc">>
          /\ pending[n].req.path = <<"/", "btc", "/", "estimate", "/">>

----------------------------------------------------------------------------
(* The flattener on every Service Info structure of a bounded size          *)
(* (specification SpecFlatten): the structure is built entry by entry, then *)
(* processServiceInfo(info, {}, "") runs.                                   *)

MaxNodes == 3       \* fields added to the structure, nested ones included
MaxDepth == 3       \* levels of nesting

Keys == {<<"a">>, <<"b">>, <<"a", "_", "b">>}
\* a field is null, a scalar, a group still empty, or a coin record
CoinRecord(t) == Obj(<<Entry(ticker, Str(t))>>)
FieldValues == {JNull, Str(<<"s">>), Obj(<< >>), CoinRecord(<<"X">>), CoinRecord(<<"Y">>)}

\* the fee tiers of the gateway's answer: a list of records without ticker
FeeTiers == Get(InfoBody.kids, fee_tiers)

\* the fields added so far (a coin record comes with its ticker, the fee
\* tiers come with the answer)
RECURSIVE Size(_)
Size(kids) ==
    IF kids = << >> THEN 0
    ELSE IF Head(kids).k \in {ticker, fee_tiers} THEN Size(Tail(kids))
         ELSE 1 + (IF Head(kids).v.t = "obj" THEN Size(Head(kids).v.kids) ELSE 0)
                + Size(Tail(kids))

\* p is the place of an entry of the object: an index, then an index into
\* that entry's value, and so on
RECURSIVE At(_, _)
At(kids, p) == IF Len(p) = 1 THEN kids[Head(p)] ELSE At(kids[Head(p)].v.kids, Tail(p))

\* the object with entry e added to the object at place p (p = << >>: to the object itself)
RECURSIVE AddAt(_, _, _)
AddAt(kids, p, e) ==
    IF p = << >> THEN Append(kids, e)
    ELSE [kids EXCEPT ![Head(p)] =
              Entry(@.k, Obj(AddAt(@.v.kids, Tail(p), e)))]

\* the places of the objects of the structure that take new fields, down to depth d
RECURSIVE Objects(_, _)
Objects(kids, d) ==
    IF d = 0 THEN {}
    ELSE UNION {IF kids[n].v.t = "obj" /\ kids[n].k # fee_tiers
                THEN {<<n>>} \cup {<<n>> \o q : q \in Objects(kids[n].v.kids, d - 1)}
                ELSE {} : n \in 1..Len(kids)}

Places == {<< >>} \cup Objects(info, MaxDepth - 1)

\* The gateway's answer grows by one field
AddField(p, k, v) ==
    /\ phase = "build"
    /\ Size(info) < MaxNodes
    /\ p \in Places
    /\ LET target == IF p = << >> THEN info ELSE At(info, p).v.kids
       IN ~HasKey(target, k)
    /\ info' = AddAt(info, p, Entry(k, v))
    /\ UNCHANGED <<coins, phase>>
    /\ UNCHANGED <<ctor, fields, paymentAddress, validation, pending, done, got, writes>>

\* const coins = {}; processServiceInfo(info, coins)
Flatten ==
    /\ phase = "build"
    /\ coins' = processServiceInfo(info, << >>, << >>)
    /\ phase' = "flat"
    /\ UNCHANGED info
    /\ UNCHANGED <<ctor, fields, paymentAddress, validation, pending, done, got, writes>>

NextFlatten ==
    \/ \E p \in Places, k \in Keys, v \in FieldValues : AddField(p, k, v)
    \/ Flatten

InitFlatten ==
    /\ InitInstances
    /\ info \in {<< >>, <<Entry(fee_tiers, FeeTiers)>>}
    /\ coins = None
    /\ phase = "build"

SpecFlatten == InitFlatten /\ [][NextFlatten]_vars

\* The places of all objects of the structure
RECURSIVE AllObjects(_)
AllObjects(kids) ==
    UNION {IF kids[n].v.t = "obj"
           THEN {<<n>>} \cup {<<n>> \o q : q \in AllObjects(kids[n].v.kids)}
           ELSE {} : n \in 1..Len(kids)}

BearsTicker(p) ==
    \E n \in 1..Len(At(info, p).v.kids) : At(info, p).v.kids[n].k = <<"ticker">>
TickerOf(p) ==
    LET rec == At(info, p).v.kids
    IN rec[CHOOSE n \in 1..Len(rec) : rec[n].k = <<"ticker">>].v

\* The coin records: the objects with a ticker that lie in no other object
\* with a ticker
CoinRecords ==
    {p \in AllObjects(info) :
        /\ BearsTicker(p)
        /\ \A d \in 1..(Len(p) - 1) : ~BearsTicker(SubSeq(p, 1, d))}

\* The keys on the way to place p, joined by "_"
RECURSIVE JoinedPath(_, _)
JoinedPath(kids, p) ==
    IF Len(p) = 1 THEN kids[Head(p)].k
    ELSE kids[Head(p)].k \o <<"_">> \o JoinedPath(kids[Head(p)].v.kids, Tail(p))

\* p comes before q in the depth-first walk in key order
RECURSIVE Before(_, _)
Before(p, q) ==
    /\ p # << >> /\ q # << >>
    /\ Head(p) < Head(q) \/ (Head(p) = Head(q) /\ Before(Tail(p), Tail(q)))

\* C8 (as claimed): after flattening there is exactly one entry per coin
\* record, keyed by its underscore-joined key path and valued by its ticker,
\* and no other entry; no two coin records share an entry.
C8_OneEntryPerTickerObject ==
    phase = "flat"
        => /\ Len(coins) = Cardinality(CoinRecords)
           /\ \A p \in CoinRecords :
                 \E n \in 1..Len(coins) : coins[n] = Entry(JoinedPath(info, p), TickerOf(p))

\* C8 (amended): after flattening there is exactly one entry per distinct
\* underscore-joined key path of a coin record (an object with a ticker that
\* lies in no other object with a ticker), and no other entry: none for
\* fee_tiers, a scalar or null.  The entry holds the ticker of the last coin
\* record with that joined path in depth-first key order, so coin records
\* whose joined paths coincide (a_b, and b in group a) share one entry.
C8_OneEntryPerJoinedPath ==
    phase = "flat"
        => /\ {coins[n].k : n \in 1..Len(coins)} = {JoinedPath(info, p) : p \in CoinRecords}
           /\ Len(coins) = Cardinality({JoinedPath(info, p) : p \in CoinRecords})
           /\ \A n \in 1..Len(coins) :
                 \E p \in CoinRecords :
                    /\ JoinedPath(info, p) = coins[n].k
                    /\ TickerOf(p) = coins[n].v
                    /\ \A q \in CoinRecords :
                          JoinedPath(info, q) = coins[n].k => (q = p \/ Before(q, p))
           /\ \A n \in 1..Len(coins) : Head(coins[n].k) # "fee"

C8_Witness ==
    /\ phase = "flat"
    /\ \E n \in 1..Len(info) : info[n].k = <<"fee", "_", "tiers">>
    /\ \E p, q \in CoinRecords :
          /\ Before(p, q)
          /\ JoinedPath(info, p) = JoinedPath(info, q)
          /\ TickerOf(p) # TickerOf(q)
          /\ \E n \in 1..Len(coins) : coins[n] = Entry(JoinedPath(info, q), TickerOf(q))
    /\ Len(coins) = 1

----------------------------------------------------------------------------
(* All seven operations side by side (specification SpecOps): one instance, *)
(* well configured or without ownAddress, and the static operations.        *)

OpsConfigs ==
    {f \in Configs : f.coin = <<"polygon", "_", "usdt">>
                       /\ f.callbackUrl = <<"https://", "shop.example", "/", "hook">>}
OpsResponses ==
    {NetworkFailure,
     HttpResponse(200, CreateBody(<<"A1">>)),
     HttpResponse(400, ErrorBody),
     HttpResponse(200, InfoBody)}

NextOps ==
    \/ \E i \in LifecycleIds, f \in OpsConfigs : Construct(i, f)
    \/ \E i \in LifecycleIds : GetAddress(i)
    \/ \E i \in LifecycleIds : CheckLogs(i)
    \/ \E i \in LifecycleIds, size \in QRSizes : FetchQRCode(i, Num(1), size)
    \/ FetchServiceInfo(FALSE)
    \/ FetchSupportedCoins
    \/ \E coin \in {<<"polygon", "_", "usdt">>} : FetchEstimatedFees(coin, Num(1), Str(<<"default">>))
    \/ \E coin \in {<<"polygon", "_", "usdt">>} : FetchConversion(coin, Num(300), Str(<<"USD">>))
    \/ \E j \in 1..MaxPending, res \in OpsResponses : Respond(j, res)

SpecOps == Init /\ [][NextOps]_vars

Operations ==
    {"getAddress", "checkLogs", "fetchQRCode", "fetchServiceInfo",
     "fetchSupportedCoins", "fetchEstimatedFees", "fetchConversion"}

\* The request of the call that settled last failed: no response, or a
\* response that is not 2xx
RequestFailed == Answered /\ done.op \in Operations /\ ~Is2xx(done.res)

----------------------------------------------------------------------------
(* Properties of getAddress that speak of the response (specification Spec) *)

\* The create request failed: no response, a status that is not 2xx, or a
\* body that is not JSON or lacks the success marker
CreateFailed(res) == ~(Is2xx(res) /\ Parsed(res) /\ HasMarker(res.body))

\* C15 (as claimed): when the create request of a getAddress call fails, the
\* call ends in an error and returns no value, and paymentAddress keeps the
\* value it had before.
C15_FailedCreateKeepsAddress ==
    [][\A i \in Ids :
         (SettledNow("getAddress", i) /\ done'.res # None /\ CreateFailed(done'.res))
            => /\ done'.out.err # None
               /\ done'.out.ret = None
               /\ paymentAddress'[i] = paymentAddress[i]]_vars

----------------------------------------------------------------------------
(* Two instances side by side (specification SpecPair).  The first is       *)
(* configured as in the tests; the second has a callback URL with a query   *)
(* already, extra parameters that hold a string with "&", a null and an     *)
(* object, and gateway options that hold the keys callback and address.     *)

PairConfigs ==
    <<[coin |-> <<"polygon", "_", "usdt">>,
       ownAddress |-> <<"0xOwn">>,
       callbackUrl |-> <<"https://", "shop.example", "/", "hook">>,
       parameters |-> <<Entry(<<"order", "_", "id">>, Num(12345))>>,
       caParams |-> <<Entry(<<"multi", "_", "chain">>, Num(1))>>],
      [coin |-> <<"doge">>,
       ownAddress |-> <<"0xOther">>,
       callbackUrl |-> <<"https://", "shop.example", "/", "hook", "?", "shop", "=", "7">>,
       parameters |-> <<Entry(<<"note">>, Str(<<"a", "&", "b">>)),
                        Entry(<<"flag">>, JNull),
                        Entry(<<"order", "_", "id">>, Num(7)),
                        Entry(<<"meta">>, Obj(<< >>))>>,
       caParams |-> <<Entry(callback, Str(<<"https://", "evil.example", "/">>)),
                      Entry(<<"multi", "_", "chain">>, Num(1)),
                      Entry(address, Str(<<"0xEvil">>))>>]>>

\* the gateway creates an address for every create request
PairResponses ==
    {HttpResponse(200, CreateBody(<<"A1">>)),
     HttpResponse(200, CreateBody(<<"A2">>))}

NextPair ==
    \/ \E i \in Ids : Construct(i, PairConfigs[i])
    \/ \E i \in Ids : GetAddress(i)
    \/ \E i \in Ids : CheckLogs(i)
    \/ \E i \in Ids, size \in QRSizes : FetchQRCode(i, Num(1), size)
    \/ \E j \in 1..MaxPending, res \in PairResponses : Respond(j, res)

SpecPair == Init /\ [][NextPair]_vars

\* The string- and number-valued extra parameters, in the mapping's key order
Scalars(parameters) == SelectSeq(parameters, LAMBDA e : e.v.t \in {"str", "num"})

\* name=value pairs joined by "&"
RECURSIVE Query(_)
Query(ps) ==
    IF ps = << >> THEN << >>
    ELSE formEncode(Head(ps).k) \o <<"=">> \o formEncode(ToStr(Head(ps).v))
            \o (IF Tail(ps) = << >> THEN << >> ELSE <<"&">> \o Query(Tail(ps)))

\* The callback parameter the claim describes
CallbackOf(f) ==
    encodeURI(f.callbackUrl
                \o (IF Scalars(f.parameters) = << >> THEN << >>
                    ELSE <<IF \E n \in 1..Len(f.callbackUrl) : f.callbackUrl[n] = "?"
                           THEN "&" ELSE "?">>
                         \o Query(Scalars(f.parameters))))

CallsOf(ops) ==
    {pending[n] : n \in {m \in 1..Len(pending) : pending[m].op \in ops}}
        \cup (IF done # NoCall /\ done.op \in ops /\ done.req # None THEN {done} ELSE {})

\* C16: every request of getAddress and of checkLogs carries one `callback`
\* parameter, for one instance the same in both: the callback URL with the
\* string- and number-valued extra parameters appended as query parameters
\* in the mapping's key order, passed through encodeURI; and no step changes
\* the callbackUrl or the parameters of a constructed instance.
C16_SameCallbackParameter ==
    /\ [](\A c \in CallsOf({"getAddress", "checkLogs"}) :
             ParamValues(c.req, callback) = <<CallbackOf(fields[c.i])>>)
    /\ [][\A i \in Ids :
            ctor[i] = "instance"
               => /\ fields'[i].callbackUrl = fields[i].callbackUrl
                  /\ fields'[i].parameters = fields[i].parameters]_vars

C16_Witness ==
    \E m, n \in 1..Len(pending) :
        /\ pending[m].op = "getAddress" /\ pending[n].op = "checkLogs"
        /\ pending[m].i = 2 /\ pending[n].i = 2
        /\ ParamValues(pending[m].req, callback) = ParamValues(pending[n].req, callback)
        /\ ParamValues(pending[n].req, callback) =
              << <<"https://", "shop.example", "/", "hook", "?", "shop", "=", "7",
                   "&", "note", "=", "a", "%", "25", "26", "b",
                   "&", "order", "_", "id", "=", "7">> >>

\* C17: no step changes the coin, ownAddress, callbackUrl, parameters or
\* caParams of a constructed instance; the paymentAddress of an instance
\* changes only when a getAddress call on that instance settles, to the
\* value that call returns; and the `address` of a qrcode request of an
\* instance is the address the last successful getAddress on that instance
\* returned, or empty when there was none - whatever happens on the other
\* instance in between.
C17_InstancesIndependent ==
    [][\A i \in Ids :
         /\ ctor[i] = "instance" => fields'[i] = fields[i]
         /\ (ctor[i] = "instance" /\ paymentAddress'[i] # paymentAddress[i])
               => /\ SettledNow("getAddress", i)
                  /\ paymentAddress'[i] = done'.out.ret
         /\ (ctor[i] = "none" /\ ctor'[i] = "none")
               => (fields'[i] = fields[i] /\ paymentAddress'[i] = paymentAddress[i])
         /\ (Started("fetchQRCode") /\ Newest(pending').i = i)
               => ParamValues(Newest(pending').req, address)
                     = <<IF got[i] = None THEN << >> ELSE ToStr(got[i])>>]_vars

\* Both instances hold an address, different ones, and the qrcode request of
\* each carries its own
C17_Witness ==
    /\ paymentAddress[1] = Str(<<"A1">>) /\ paymentAddress[2] = Str(<<"A2">>)
    /\ fields[1] # fields[2]
    /\ \E m, n \in 1..Len(pending) :
          /\ pending[m].op = "fetchQRCode" /\ pending[m].i = 1
          /\ ParamValues(pending[m].req, address) = << <<"A1">> >>
          /\ pending[n].op = "fetchQRCode" /\ pending[n].i = 2
          /\ ParamValues(pending[n].req, address) = << <<"A2">> >>

----------------------------------------------------------------------------
(* Order and purity of the flattener (specification SpecFlatten) *)

\* p is the first coin record with its joined path in the depth-first walk
Discovers(p) ==
    \A r \in CoinRecords :
        JoinedPath(info, r) = JoinedPath(info, p) => (r = p \/ Before(p, r))

\* C18: flattening leaves the Service Info structure as it was, and the
\* entries it produces stand in the order in which the depth-first walk in
\* the input's key order first comes upon their keys.
C18_PureDepthFirstOrder ==
    /\ [](phase = "flat"
            => \A n, m \in 1..Len(coins) :
                  n < m => \E p, q \in CoinRecords :
                              /\ JoinedPath(info, p) = coins[n].k /\ Discovers(p)
                              /\ JoinedPath(info, q) = coins[m].k /\ Discovers(q)
                              /\ Before(p, q))
    /\ [][phase' = "flat" => info' = info]_vars

\* A record two levels down comes before a top-level record that follows
\* its group
C18_Witness ==
    /\ phase = "flat"
    /\ Len(coins) = 2
    /\ \E p, q \in CoinRecords :
          /\ Len(p) = 2 /\ Len(q) = 1 /\ Before(p, q)
          /\ coins[1] = Entry(JoinedPath(info, p), TickerOf(p))
          /\ coins[2] = Entry(JoinedPath(info, q), TickerOf(q))

----------------------------------------------------------------------------
(* Gateway options against callback and address (specification SpecPair) *)

\* C19: whatever keys caParams holds, callback and address among them, every
\* create request carries exactly one `callback` and exactly one `address`
\* parameter, with the instance's encoded callback URL and its ownAddress as
\* their values; of caParams the request carries the other keys only.
C19_OptionsCannotRedirect ==
    \A c \in CallsOf({"getAddress"}) :
        LET f == fields[c.i]
        IN /\ ParamValues(c.req, callback) = <<CallbackOf(f)>>
           /\ ParamValues(c.req, address) = <<f.ownAddress>>
           /\ \A n \in 1..Len(f.caParams) :
                 f.caParams[n].k \notin {callback, address}
                    => ParamValues(c.req, f.caParams[n].k) = <<ToStr(f.caParams[n].v)>>
           /\ Len(c.req.query) =
                 2 + Cardinality({n \in 1..Len(f.caParams) :
                                     f.caParams[n].k \notin {callback, address}})

C19_Witness ==
    \E n \in 1..Len(pending) :
        /\ pending[n].op = "getAddress"
        /\ \E m \in 1..Len(fields[pending[n].i].caParams) :
              fields[pending[n].i].caParams[m] = Entry(<<"address">>, Str(<<"0xEvil">>))
        /\ pending[n].req.query =
              <<Entry(<<"callback">>,
                      <<"https://", "shop.example", "/", "hook", "?", "shop", "=", "7",
                        "&", "note", "=", "a", "%", "25", "26", "b",
                        "&", "order", "_", "id", "=", "7">>),
                Entry(<<"multi", "_", "chain">>, <<"1">>),
                Entry(<<"address">>, <<"0xOther">>)>>

====
